---- MODULE Spec2Model ----
(***************************************************************************)
(* Model of the access-matrix aggregation of gcp-access-visualizer         *)
(* (backend/internal/gcp): GetUsers, GetResources and GetAccessMatrix.     *)
(*                                                                         *)
(* Go strings are modelled as sequences of tokens.  A token is either one  *)
(* of the separator characters ":", "/", "." or a non-empty word that      *)
(* contains none of them, so "user:alice" is <<"user", ":", "alice">> and  *)
(* the key separator "::" is <<":", ":">>.  Concatenation, prefix tests,   *)
(* strings.Contains and strings.Split are computed on these sequences the  *)
(* way Go computes them on bytes.                                          *)
(***************************************************************************)
EXTENDS Integers, Sequences, FiniteSets, TLC

VARIABLES
    pc,              \* the statement GetAccessMatrix is at
    users,           \* []User
    validUsers,      \* map[string]bool, as the set of its keys (all values are true)
    directory,       \* what the project directory answered: <<>> before the call
    inv,             \* what the inventory backends answered: <<>> before the call
    resourcesMap,    \* map[string]*Resource
    accessMap,       \* map[string]*AccessEntry
    streamRead,      \* the policy results it.Next() has returned so far
    directFacts,     \* the entries the policy loop stored in accessMap (line 116)
    inheritedFacts,  \* the entries the inheritance loop stored in accessMap (line 160)
    calls,           \* the collaborator calls made so far and how each ended
    result,          \* what GetAccessMatrix returned
    projectID,       \* the projectID argument of NewClient
    opened,          \* the API clients NewClient has created, in order of creation
    closes,          \* for every API client, how often Close() was called on it
    newClient        \* what NewClient returned

\* the state of NewClient
clientVars == <<projectID, opened, closes, newClient>>

\* the state of GetAccessMatrix
matrixVars == <<users, validUsers, directory, inv, resourcesMap, accessMap, streamRead,
                directFacts, inheritedFacts, result>>

vars == <<pc, users, validUsers, directory, inv, resourcesMap, accessMap, streamRead,
          directFacts, inheritedFacts, calls, result, projectID, opened, closes, newClient>>

----------------------------------------------------------------------------
(* Strings *)

Colon == ":"
Slash == "/"
Dot   == "."

\* the literal "::" of the fmt.Sprintf formats and of strings.Split(key, "::")
KeySep == <<Colon, Colon>>

\* s[i:i+len(pat)] == pat
MatchAt(s, pat, i) ==
    /\ i >= 1
    /\ i + Len(pat) - 1 <= Len(s)
    /\ \A j \in 1..Len(pat) : s[i + j - 1] = pat[j]

\* strings.Contains(s, pat)
Contains(s, pat) == \E i \in 1..(Len(s) + 1) : MatchAt(s, pat, i)

\* strings.HasPrefix(s, pat)
HasPrefix(s, pat) == MatchAt(s, pat, 1)

\* strings.Index(s, pat), 0 when pat does not occur
Index(s, pat) ==
    IF Contains(s, pat)
    THEN CHOOSE i \in 1..(Len(s) + 1) :
            /\ MatchAt(s, pat, i)
            /\ \A j \in 1..(i - 1) : ~MatchAt(s, pat, j)
    ELSE 0

\* strings.Split(s, sep) for a non-empty sep: the substrings between the
\* leftmost non-overlapping occurrences of sep
RECURSIVE Split(_, _)
Split(s, sep) ==
    LET i == Index(s, sep)
    IN  IF i = 0
        THEN <<s>>
        ELSE <<SubSeq(s, 1, i - 1)>> \o Split(SubSeq(s, i + Len(sep), Len(s)), sep)

Range(f) == {f[i] : i \in DOMAIN f}

\* all enumerations of a finite set without repetition: the orders in which
\* a range statement may visit the keys of a map
Orders(S) ==
    {f \in [1..Cardinality(S) -> S] : \A i, j \in 1..Cardinality(S) : f[i] = f[j] => i = j}

----------------------------------------------------------------------------
(* Values shared by the Go code *)

\* a nil error; a non-nil error is the sequence of its messages, outermost
\* first, so fmt.Errorf("msg: %w", err) is <<"msg">> \o err
Nil == <<>>

Wrap(msg, err) == <<msg>> \o err

ProjectID == <<"p">>

\* map[string][]string{}
EmptyMap == <<>>

\* m[k] = v on a Go map
Put(m, k, v) == [x \in (DOMAIN m) \cup {k} |-> IF x = k THEN v ELSE m[x]]

TypeVM == <<"vm">>
TypeGKE == <<"gke">>
TypeCloudRun == <<"cloudrun">>
TypeStorage == <<"storage">>
TypeBigQuery == <<"bigquery">>
TypeProject == <<"project">>
TypeOrganization == <<"organization">>
TypeServiceAccount == <<"serviceaccount">>
TypeOther == <<"other">>

GoogleApis(service) == <<service, Dot, "googleapis", Dot, "com">>

----------------------------------------------------------------------------
(* users: parseUser *)

User(email, type) == [Email |-> email, Type |-> type]

PrefixUser == <<"user", Colon>>
PrefixServiceAccount == <<"serviceAccount", Colon>>
PrefixGroup == <<"group", Colon>>
PrefixDomain == <<"domain", Colon>>

\* len(member) > len(prefix) && member[:len(prefix)] == prefix
LongerWithPrefix(member, prefix) ==
    Len(member) > Len(prefix) /\ HasPrefix(member, prefix)

Strip(member, prefix) == SubSeq(member, Len(prefix) + 1, Len(member))

parseUser(member) ==
    CASE LongerWithPrefix(member, PrefixUser) ->
            User(Strip(member, PrefixUser), <<"user">>)
      [] LongerWithPrefix(member, PrefixServiceAccount) ->
            User(Strip(member, PrefixServiceAccount), <<"serviceAccount">>)
      [] LongerWithPrefix(member, PrefixGroup) ->
            User(Strip(member, PrefixGroup), <<"group">>)
      [] LongerWithPrefix(member, PrefixDomain) ->
            User(Strip(member, PrefixDomain), <<"domain">>)
      [] OTHER -> User(member, <<"other">>)

\* the members of all bindings of a policy
MembersOf(bindings) ==
    UNION {Range(bindings[i].Members) : i \in DOMAIN bindings}

\* usersMap of GetUsers: one parsed User per distinct member string
usersMapOf(bindings) == [m \in MembersOf(bindings) |-> parseUser(m)]

----------------------------------------------------------------------------
(* access: extractResourceName, extractResourceType,                       *)
(* getApplicableResourceTypes, contains                                    *)

extractResourceName(resourceID) ==
    LET parts == Split(resourceID, <<Slash>>)
    IN  IF Len(parts) > 0 THEN parts[Len(parts)] ELSE resourceID

extractResourceType(resourceID) ==
    IF Contains(resourceID, GoogleApis("cloudresourcemanager") \o <<Slash, "projects">>)
    THEN TypeProject
    ELSE IF Contains(resourceID, GoogleApis("cloudresourcemanager") \o <<Slash, "organizations">>)
    THEN TypeOrganization
    ELSE IF Contains(resourceID, GoogleApis("compute")) THEN TypeVM
    ELSE IF Contains(resourceID, GoogleApis("container")) THEN TypeGKE
    ELSE IF Contains(resourceID, GoogleApis("run")) THEN TypeCloudRun
    ELSE IF Contains(resourceID, GoogleApis("storage")) THEN TypeStorage
    ELSE IF Contains(resourceID, GoogleApis("bigquery")) THEN TypeBigQuery
    ELSE IF Contains(resourceID, GoogleApis("iam")) THEN TypeServiceAccount
    ELSE IF HasPrefix(resourceID, <<Slash, Slash>>)
    THEN LET parts == Split(SubSeq(resourceID, 3, Len(resourceID)), <<Slash>>)
             serviceParts == Split(parts[1], <<Dot>>)
         IN  serviceParts[1]
    ELSE TypeOther

RolePattern(name) == <<"roles", Slash, name>>

\* getApplicableResourceTypes naming the service-account kind "serviceAccount",
\* as the member prefix is spelled, where the classifier says "serviceaccount"
getApplicableResourceTypesMisspelled(role) ==
    IF \/ Contains(role, RolePattern("owner"))
       \/ Contains(role, RolePattern("editor"))
       \/ Contains(role, RolePattern("viewer"))
    THEN <<TypeStorage, TypeVM, TypeGKE, TypeCloudRun, TypeBigQuery, TypeProject,
           <<"serviceAccount">> >>
    ELSE IF Contains(role, RolePattern("storage") \o <<Dot>>) THEN <<TypeStorage>>
    ELSE IF Contains(role, RolePattern("compute") \o <<Dot>>) THEN <<TypeVM>>
    ELSE IF Contains(role, RolePattern("container") \o <<Dot>>) THEN <<TypeGKE>>
    ELSE IF Contains(role, RolePattern("run") \o <<Dot>>) THEN <<TypeCloudRun>>
    ELSE IF Contains(role, RolePattern("bigquery") \o <<Dot>>) THEN <<TypeBigQuery>>
    ELSE IF Contains(role, RolePattern("iam") \o <<Dot>>) THEN << <<"serviceAccount">> >>
    ELSE <<>>

getApplicableResourceTypes(role) ==
    IF \/ Contains(role, RolePattern("owner"))
       \/ Contains(role, RolePattern("editor"))
       \/ Contains(role, RolePattern("viewer"))
    THEN <<TypeStorage, TypeVM, TypeGKE, TypeCloudRun, TypeBigQuery, TypeProject,
           TypeServiceAccount>>
    ELSE IF Contains(role, RolePattern("storage") \o <<Dot>>) THEN <<TypeStorage>>
    ELSE IF Contains(role, RolePattern("compute") \o <<Dot>>) THEN <<TypeVM>>
    ELSE IF Contains(role, RolePattern("container") \o <<Dot>>) THEN <<TypeGKE>>
    ELSE IF Contains(role, RolePattern("run") \o <<Dot>>) THEN <<TypeCloudRun>>
    ELSE IF Contains(role, RolePattern("bigquery") \o <<Dot>>) THEN <<TypeBigQuery>>
    ELSE IF Contains(role, RolePattern("iam") \o <<Dot>>) THEN <<TypeServiceAccount>>
    ELSE <<>>

contains(slice, item) == \E i \in DOMAIN slice : slice[i] = item

----------------------------------------------------------------------------
(* resources: GetResources and the three listing backends *)

Resource(id, name, type, location, iam) ==
    [ID |-> id, Name |-> name, Type |-> type, Location |-> location, IAM |-> iam]

\* for _, binding := range policy.Bindings { resource.IAM[role] = members }
RECURSIVE BindingsToIAM(_, _)
BindingsToIAM(iam, bindings) ==
    IF bindings = <<>>
    THEN iam
    ELSE BindingsToIAM(Put(iam, Head(bindings).Role, Head(bindings).Members),
                       Tail(bindings))

\* the IAM map after the best-effort enrichment: policy is the outcome of the
\* per-resource GetIamPolicy call, [err, Bindings]
EnrichedIAM(policy) ==
    IF policy.err = Nil THEN BindingsToIAM(EmptyMap, policy.Bindings) ELSE EmptyMap

\* fmt.Sprintf("%d", instance.GetId())
FormatUint(id) == <<ToString(id)>>

\* resp is the outcome of ListClusters: [err, Clusters]
getGKEClusters(resp) ==
    IF resp.err # Nil
    THEN [resources |-> <<>>, err |-> resp.err]
    ELSE [resources |->
            [i \in 1..Len(resp.Clusters) |->
                Resource(resp.Clusters[i].SelfLink, resp.Clusters[i].Name, TypeGKE,
                         resp.Clusters[i].Location,
                         Put(EmptyMap, <<"inherited">>, << <<"project-level">> >>))],
          err |-> Nil]

Zones == << <<"us-central1-a">>, <<"us-central1-b">>, <<"us-east1-b">>,
            <<"us-west1-a">>, <<"europe-west1-b">> >>

\* the resources of one zone: listing[z] is what the zone's iterator yields,
\* [instances, err]: the instances returned before it ends, and the error it
\* ends with (Nil for iterator.Done).  Either way the loop breaks and the
\* instances obtained so far are kept.
ZoneResources(zone, listed) ==
    [i \in 1..Len(listed.instances) |->
        Resource(FormatUint(listed.instances[i].Id), listed.instances[i].Name,
                 TypeVM, zone, EnrichedIAM(listed.instances[i].policy))]

RECURSIVE VMsFrom(_, _)
VMsFrom(z, listing) ==
    IF z > Len(Zones)
    THEN <<>>
    ELSE ZoneResources(Zones[z], listing[z]) \o VMsFrom(z + 1, listing)

\* getVMs leaving the zone loop, not only the page loop, at a zone's error
getVMsUntilFailedZone(listing) ==
    LET failed == {z \in DOMAIN listing : listing[z].err # Nil}
        last == IF failed = {} THEN Len(Zones)
                ELSE CHOOSE z \in failed : \A y \in failed : z <= y
    IN  [resources |-> VMsFrom(1, [z \in DOMAIN listing |->
                                      IF z <= last THEN listing[z]
                                      ELSE [instances |-> <<>>, err |-> Nil]]),
         err |-> Nil]

getVMs(listing) == [resources |-> VMsFrom(1, listing), err |-> Nil]

extractLocation(name) == <<"us-central1">>

\* getCloudRunServices returning the error of a failed GetIamPolicy call
getCloudRunServicesStrict(listed) ==
    IF listed.err # Nil
    THEN [resources |-> <<>>, err |-> listed.err]
    ELSE IF \E i \in DOMAIN listed.services : listed.services[i].policy.err # Nil
    THEN [resources |-> <<>>,
          err |-> listed.services[CHOOSE i \in DOMAIN listed.services :
                                      listed.services[i].policy.err # Nil].policy.err]
    ELSE [resources |->
            [i \in 1..Len(listed.services) |->
                Resource(listed.services[i].Name, listed.services[i].Name,
                         TypeCloudRun, extractLocation(listed.services[i].Name),
                         EnrichedIAM(listed.services[i].policy))],
          err |-> Nil]

\* listed is what the ListServices iterator yields: [services, err]
getCloudRunServices(listed) ==
    IF listed.err # Nil
    THEN [resources |-> <<>>, err |-> listed.err]
    ELSE [resources |->
            [i \in 1..Len(listed.services) |->
                Resource(listed.services[i].Name, listed.services[i].Name,
                         TypeCloudRun, extractLocation(listed.services[i].Name),
                         EnrichedIAM(listed.services[i].policy))],
          err |-> Nil]

\* world is what the three backends answer: [gke, vm, run]
GetResources(world) ==
    LET gkeClusters == getGKEClusters(world.gke)
        vms == getVMs(world.vm)
        cloudRunServices == getCloudRunServices(world.run)
    IN  IF gkeClusters.err # Nil
        THEN [resources |-> <<>>, err |-> Wrap("failed to get GKE clusters", gkeClusters.err)]
        ELSE IF vms.err # Nil
        THEN [resources |-> <<>>, err |-> Wrap("failed to get VMs", vms.err)]
        ELSE IF cloudRunServices.err # Nil
        THEN [resources |-> <<>>,
              err |-> Wrap("failed to get Cloud Run services", cloudRunServices.err)]
        ELSE [resources |-> gkeClusters.resources \o vms.resources
                                \o cloudRunServices.resources,
              err |-> Nil]

----------------------------------------------------------------------------
(* The collaborators' answers the model draws from *)

MaxStream == 2

Alice == <<"user", Colon, "alice">>
AliceGroup == <<"group", Colon, "alice">>
Bob == <<"user", Colon, "bob">>
\* a workload-identity-federation member naming an AWS role by its ARN
AwsRole == <<"principalSet", Colon, Slash, Slash>> \o GoogleApis("iam")
             \o <<Slash, "arn", Colon, "aws", Colon, "sts", Colon, Colon, "1", Colon, "role">>

RoleEditor == RolePattern("editor")
RoleViewer == RolePattern("viewer")
RoleComputeAdmin == RolePattern("compute") \o <<Dot, "admin">>
RoleStorageAdmin == RolePattern("storage") \o <<Dot, "admin">>
RolePublisher == RolePattern("pubsub") \o <<Dot, "publisher">>
RoleContainerAdmin == RolePattern("container") \o <<Dot, "admin">>
RoleRunInvoker == RolePattern("run") \o <<Dot, "invoker">>
RoleBigQueryAdmin == RolePattern("bigquery") \o <<Dot, "admin">>
RoleServiceAccountUser == RolePattern("iam") \o <<Dot, "serviceAccountUser">>
\* a custom role of the project: projects/p/roles/storage.custom
RoleCustom == <<"projects", Slash>> \o ProjectID \o <<Slash>>
                \o RolePattern("storage") \o <<Dot, "custom">>

\* the member string "user:", with nothing after the prefix
BareUser == <<"user", Colon>>

Binding(role, members) == [Role |-> role, Members |-> members]

Causes == { <<"permission denied">> }

\* answers of ResourceManager.GetIamPolicy on the project
DirectoryPolicies ==
    { <<>>,
      <<Binding(RoleEditor, <<Alice>>)>>,
      <<Binding(RoleEditor, <<Alice>>), Binding(RoleViewer, <<Alice, AliceGroup>>)>> }

ProjectPath == <<"projects", Slash>> \o ProjectID

ProjectRes == <<Slash, Slash>> \o GoogleApis("cloudresourcemanager") \o <<Slash>> \o ProjectPath
Vm1Res == <<Slash, Slash>> \o GoogleApis("compute") \o <<Slash>> \o ProjectPath
            \o <<Slash, "zones", Slash, "us-central1-a", Slash, "instances", Slash, "vm-1">>
\* two buckets, the name of the first contained in the name of the second
BucketRes == <<Slash, Slash>> \o GoogleApis("storage") \o <<Slash, "example", Dot, "com">>
LogBucketRes == <<Slash, Slash>> \o GoogleApis("storage")
                  \o <<Slash, "logs", Dot, "example", Dot, "com">>

\* resources of services the inventory does not list
TopicRes == <<Slash, Slash>> \o GoogleApis("pubsub") \o <<Slash>> \o ProjectPath
              \o <<Slash, "topics", Slash, "t">>
DatasetRes == <<Slash, Slash>> \o GoogleApis("bigquery") \o <<Slash>> \o ProjectPath
                \o <<Slash, "datasets", Slash, "d">>
AccountRes == <<Slash, Slash>> \o GoogleApis("iam") \o <<Slash>> \o ProjectPath
                \o <<Slash, "serviceAccounts", Slash, "sa">>

PolicyResult(resource, bindings) == [Resource |-> resource, Bindings |-> bindings]

\* results of SearchAllIamPolicies
StreamPolicies ==
    { PolicyResult(ProjectRes, <<Binding(RoleEditor, <<Alice>>)>>),
      PolicyResult(ProjectRes, <<Binding(RoleComputeAdmin, <<Alice>>),
                                 Binding(RoleStorageAdmin, <<AwsRole>>),
                                 Binding(RolePublisher, <<Bob>>),
                                 Binding(RoleCustom, <<Bob>>),
                                 Binding(RoleContainerAdmin, <<Alice>>),
                                 Binding(RoleRunInvoker, <<Alice>>),
                                 Binding(RoleBigQueryAdmin, <<Alice>>),
                                 Binding(RoleServiceAccountUser, <<Alice>>)>>),
      PolicyResult(Vm1Res, <<Binding(RoleViewer, <<Alice>>)>>),
      PolicyResult(Vm1Res, <<Binding(RoleComputeAdmin, <<Alice, Bob>>)>>),
      PolicyResult(BucketRes, <<Binding(RoleStorageAdmin, <<AwsRole, Alice>>)>>),
      PolicyResult(LogBucketRes, <<Binding(RoleViewer, <<>>),
                                   Binding(RoleStorageAdmin, <<Bob>>)>>),
      PolicyResult(TopicRes, <<Binding(RolePublisher, <<Bob, BareUser>>)>>),
      PolicyResult(DatasetRes, <<Binding(RoleBigQueryAdmin, <<Bob>>)>>),
      PolicyResult(AccountRes, <<Binding(RoleServiceAccountUser, <<Bob>>)>>) }

NoPolicy == [err |-> Nil, Bindings |-> <<>>]

Cluster1 ==
    [SelfLink |-> <<"https", Colon, Slash, Slash>> \o GoogleApis("container")
                    \o <<Slash, "v1", Slash>> \o ProjectPath
                    \o <<Slash, "locations", Slash, "us-central1", Slash, "clusters", Slash, "c1">>,
     Name |-> <<"c1">>,
     Location |-> <<"us-central1">>]

Instance1 == [Id |-> 4711, Name |-> <<"vm-1">>, policy |-> NoPolicy]

\* the outcome of a per-resource GetIamPolicy call that fails
PolicyDenied == [err |-> <<"permission denied">>, Bindings |-> <<>>]

\* an instance whose GetIamPolicy call fails, and one whose policy has a binding
Instance2 == [Id |-> 4712, Name |-> <<"vm-2">>, policy |-> PolicyDenied]
Instance3 == [Id |-> 4713, Name |-> <<"vm-3">>,
              policy |-> [err |-> Nil, Bindings |-> <<Binding(RoleComputeAdmin, <<Bob>>)>>]]

GkeAnswers == { [err |-> <<"unavailable">>, Clusters |-> <<>>],
                [err |-> Nil, Clusters |-> <<Cluster1>>] }

ZoneAnswer(instances, err) == [instances |-> instances, err |-> err]

\* one answer per zone of Zones
VmAnswers ==
    { [z \in 1..Len(Zones) |-> ZoneAnswer(<<>>, Nil)],
      [z \in 1..Len(Zones) |->
          IF z = 1 THEN ZoneAnswer(<<Instance1>>, Nil) ELSE ZoneAnswer(<<>>, Nil)],
      \* the first zone fails after two instances, the second at its first
      \* page, the third lists one instance
      [z \in 1..Len(Zones) |->
          CASE z = 1 -> ZoneAnswer(<<Instance2, Instance1>>, <<"unavailable">>)
            [] z = 2 -> ZoneAnswer(<<>>, <<"unavailable">>)
            [] z = 3 -> ZoneAnswer(<<Instance3>>, Nil)
            [] OTHER -> ZoneAnswer(<<>>, Nil)] }

Service1 ==
    [Name |-> ProjectPath \o <<Slash, "locations", Slash, "europe-west1", Slash,
                               "services", Slash, "api">>,
     policy |-> [err |-> Nil, Bindings |-> <<Binding(RolePattern("run") \o <<Dot, "invoker">>,
                                                     <<Bob>>)>>]]

\* a service in another location, whose GetIamPolicy call fails
Service2 ==
    [Name |-> ProjectPath \o <<Slash, "locations", Slash, "us-central1", Slash,
                               "services", Slash, "web">>,
     policy |-> PolicyDenied]

RunAnswers == { [err |-> <<"unavailable">>, services |-> <<>>],
                [err |-> Nil, services |-> <<Service2, Service1>>] }

Worlds == [gke : GkeAnswers, vm : VmAnswers, run : RunAnswers]

----------------------------------------------------------------------------
(* access: the steps of GetAccessMatrix as operators *)

AccessEntry(userEmail, resourceID, resourceName, resourceType, roles) ==
    [UserEmail |-> userEmail, ResourceID |-> resourceID, ResourceName |-> resourceName,
     ResourceType |-> resourceType, Roles |-> roles]

AccessMatrix(us, resources, accessEntries) ==
    [Users |-> us, Resources |-> resources, Access |-> accessEntries]

\* fmt.Sprintf("%s::%s::%s", userEmail, resourceID, role)
AccessKey(userEmail, resourceID, role) ==
    userEmail \o KeySep \o resourceID \o KeySep \o role

KeyOfEntry(e) == AccessKey(e.UserEmail, e.ResourceID, e.Roles[1])

\* fmt.Sprintf("%s::%s", entry.UserEmail, entry.ResourceID)
GroupKey(userEmail, resourceID) == userEmail \o KeySep \o resourceID

projectResourceID == <<Slash, Slash>> \o GoogleApis("cloudresourcemanager")
                       \o <<Slash, "projects", Slash>> \o ProjectID

\* a collaborator call and how it ended: "ok", "error" or, for it.Next, "done"
Call(op, outcome) == [op |-> op, outcome |-> outcome]

NotReturned == [returned |-> FALSE, matrix |-> <<>>, err |-> Nil]

\* return nil, err
ReturnError(err) == [returned |-> TRUE, matrix |-> <<>>, err |-> err]

\* return &AccessMatrix{...}, nil
ReturnMatrix(m) == [returned |-> TRUE, matrix |-> <<m>>, err |-> Nil]

\* GetUsersFailure with the cause left out of the error
GetUsersFailureBare(cause) == ReturnError(<<"failed to get IAM policy">>)

\* what GetAccessMatrix returns when GetIamPolicy fails with cause: the
\* error of GetUsers, unchanged
GetUsersFailure(cause) == ReturnError(Wrap("failed to get IAM policy", cause))

\* for _, res := range knownResources { r := res; resourcesMap[res.ID] = &r }
RECURSIVE Prepopulate(_, _)
Prepopulate(rm, knownResources) ==
    IF knownResources = <<>>
    THEN rm
    ELSE Prepopulate(Put(rm, Head(knownResources).ID, Head(knownResources)),
                     Tail(knownResources))

\* KnownResourcesMap storing the address of the loop variable, without the
\* copy of line 70: every key holds the resource visited last
KnownResourcesMapAliased(known) ==
    IF known.err = Nil
    THEN [id \in {known.resources[i].ID : i \in DOMAIN known.resources} |->
             known.resources[Len(known.resources)]]
    ELSE EmptyMap

\* the resources map after step 1: known is the result of c.GetResources()
KnownResourcesMap(known) ==
    IF known.err = Nil THEN Prepopulate(EmptyMap, known.resources) ELSE EmptyMap

\* the (role, member) pairs of the bindings, in the order the two loops visit them
RECURSIVE Pairs(_)
Pairs(bindings) ==
    IF bindings = <<>>
    THEN <<>>
    ELSE [i \in 1..Len(Head(bindings).Members) |->
              [Role |-> Head(bindings).Role, Member |-> Head(bindings).Members[i]]]
         \o Pairs(Tail(bindings))

\* UsersWith without the append of line 110
UsersWithoutAppend(us, valid, user) == us

\* users after "if !validUsers[user.Email] { ...; users = append(users, user) }"
UsersWith(us, valid, user) ==
    IF user.Email \notin valid THEN Append(us, user) ELSE us

\* ProcessMember with the store into accessMap moved inside the block that
\* handles a principal seen for the first time
ProcessMemberOnlyNew(acc, resourceID, resourceName, resourceType, role, member) ==
    LET user == parseUser(member)
        key == AccessKey(user.Email, resourceID, role)
        entry == AccessEntry(user.Email, resourceID, resourceName, resourceType, <<role>>)
        fresh == key \notin DOMAIN acc.accessMap /\ user.Email \notin acc.validUsers
    IN  [users |-> UsersWith(acc.users, acc.validUsers, user),
         validUsers |-> acc.validUsers \cup {user.Email},
         accessMap |-> IF fresh THEN Put(acc.accessMap, key, entry) ELSE acc.accessMap,
         directFacts |-> IF fresh THEN acc.directFacts \cup {entry} ELSE acc.directFacts]

\* the body of the member loop (lines 104-123) on the accumulated state acc
ProcessMember(acc, resourceID, resourceName, resourceType, role, member) ==
    LET user == parseUser(member)
        key == AccessKey(user.Email, resourceID, role)
        entry == AccessEntry(user.Email, resourceID, resourceName, resourceType, <<role>>)
        fresh == key \notin DOMAIN acc.accessMap
    IN  [users |-> UsersWith(acc.users, acc.validUsers, user),
         validUsers |-> acc.validUsers \cup {user.Email},
         accessMap |-> IF fresh THEN Put(acc.accessMap, key, entry) ELSE acc.accessMap,
         directFacts |-> IF fresh THEN acc.directFacts \cup {entry} ELSE acc.directFacts]

RECURSIVE ProcessPairs(_, _, _, _, _)
ProcessPairs(acc, resourceID, resourceName, resourceType, pairs) ==
    IF pairs = <<>>
    THEN acc
    ELSE ProcessPairs(ProcessMember(acc, resourceID, resourceName, resourceType,
                                    Head(pairs).Role, Head(pairs).Member),
                      resourceID, resourceName, resourceType, Tail(pairs))

StreamResource(resourceID) ==
    Resource(resourceID, extractResourceName(resourceID), extractResourceType(resourceID),
             <<"global">>, EmptyMap)

\* TrackResource matching tracked resources by name containment instead of
\* by identifier
TrackResourceByContainment(rm, resourceID) ==
    IF \A id \in DOMAIN rm : ~Contains(rm[id].Name, extractResourceName(resourceID))
    THEN Put(rm, resourceID, StreamResource(resourceID))
    ELSE rm

\* TrackResource without the existence test of line 90
TrackResourceOverwriting(rm, resourceID) == Put(rm, resourceID, StreamResource(resourceID))

\* resourcesMap after "Add resource if not already tracked" (lines 90-98)
TrackResource(rm, resourceID) ==
    IF resourceID \notin DOMAIN rm
    THEN Put(rm, resourceID, StreamResource(resourceID))
    ELSE rm

\* all maps that give every key of opts one of the values opts offers for it
RECURSIVE Products(_)
Products(opts) ==
    IF DOMAIN opts = {}
    THEN {EmptyMap}
    ELSE LET k == CHOOSE x \in DOMAIN opts : TRUE
             rest == [x \in (DOMAIN opts) \ {k} |-> opts[x]]
         IN  {Put(m, k, v) : m \in Products(rest), v \in opts[k]}

\* projectAccessByUser (lines 133-138), as the (userEmail, role) pairs it holds
ProjectGrants(am) ==
    {[UserEmail |-> am[k].UserEmail, Role |-> am[k].Roles[1]] :
        k \in {x \in DOMAIN am : am[x].ResourceID = projectResourceID}}

\* Inherits without the existence test of line 159
InheritsOverDirect(am, rm, userEmail, resourceID, role) ==
    /\ resourceID # projectResourceID
    /\ contains(getApplicableResourceTypes(role), rm[resourceID].Type)

\* whether the inheritance loop stores an entry for (userEmail, resourceID, role):
\* the conditions of lines 151, 156 and 159
Inherits(am, rm, userEmail, resourceID, role) ==
    /\ resourceID # projectResourceID
    /\ contains(getApplicableResourceTypes(role), rm[resourceID].Type)
    /\ AccessKey(userEmail, resourceID, role) \notin DOMAIN am

\* the entries the inheritance loop builds (lines 160-166)
InheritedEntries(am, rm) ==
    {AccessEntry(p[1].UserEmail, p[2], rm[p[2]].Name, rm[p[2]].Type, <<p[1].Role>>) :
        p \in {q \in ProjectGrants(am) \X (DOMAIN rm) :
                  Inherits(am, rm, q[1].UserEmail, q[2], q[1].Role)}}

\* what the inheritance loop may store in accessMap (line 160), by key.  Which
\* entry is stored under a key that two built entries share depends on the
\* order in which the maps are ranged over.
StoredByInheritance(am, rm) ==
    LET built == InheritedEntries(am, rm)
        keys == {KeyOfEntry(e) : e \in built}
    IN  Products([k \in keys |-> {e \in built : KeyOfEntry(e) = k}])

\* accessMap after the stores of the inheritance loop
WithStored(am, stored) ==
    [k \in (DOMAIN am) \cup (DOMAIN stored) |->
        IF k \in DOMAIN stored THEN stored[k] ELSE am[k]]

\* A slice built by appending while ranging over a map holds one element per
\* visited key, in the unspecified order of the visit: it is kept as the bag
\* of its elements.
BagOf(f) ==
    [e \in {f[k] : k \in DOMAIN f} |-> Cardinality({k \in DOMAIN f : f[k] = e})]

\* the keys of userResourceRoles
GroupKeys(am) == {GroupKey(am[k].UserEmail, am[k].ResourceID) : k \in DOMAIN am}

\* KeysOfGroup leaving out the facts on the project itself
KeysOfGroupBelowProject(am, g) ==
    {k \in DOMAIN am : /\ GroupKey(am[k].UserEmail, am[k].ResourceID) = g
                       /\ am[k].ResourceID # projectResourceID}

\* the keys of accessMap whose entries are appended to userResourceRoles[g]
KeysOfGroup(am, g) ==
    {k \in DOMAIN am : GroupKey(am[k].UserEmail, am[k].ResourceID) = g}

\* userResourceRoles (lines 181-185): for every group key the roles appended
UserResourceRoles(am) ==
    [g \in GroupKeys(am) |-> LET Role(k) == am[k].Roles[1]
                             IN  BagOf([k \in KeysOfGroup(am, g) |-> Role(k)])]

\* whether the second grouping loop appends an entry for key (lines 188-196)
Emitted(rm, key) ==
    LET parts == Split(key, KeySep)
    IN  Len(parts) = 2 /\ parts[2] \in DOMAIN rm

\* GroupedEntry taking name and kind from the identifier, as the policy loop
\* does, instead of from the tracked resource
GroupedEntryFromIdentifier(rm, key, roles) ==
    LET parts == Split(key, KeySep)
    IN  AccessEntry(parts[1], parts[2], extractResourceName(parts[2]),
                    extractResourceType(parts[2]), roles)

\* the AccessEntry appended for key (lines 197-203)
GroupedEntry(rm, key, roles) ==
    LET parts == Split(key, KeySep)
    IN  AccessEntry(parts[1], parts[2], rm[parts[2]].Name, rm[parts[2]].Type, roles)

\* accessEntries (lines 187-205)
AccessEntries(am, rm) ==
    LET userResourceRoles == UserResourceRoles(am)
        Entry(g) == GroupedEntry(rm, g, userResourceRoles[g])
    IN  BagOf([g \in {h \in DOMAIN userResourceRoles : Emitted(rm, h)} |-> Entry(g)])

\* resources (lines 174-177)
Resources(rm) == BagOf(rm)

----------------------------------------------------------------------------
(* access: GetAccessMatrix, one action per collaborator call or stage *)

\* the API clients in the order NewClient creates them (lines 25, 31, 38, 46)
ClientOrder == <<"computeClient", "containerClient", "runClient", "resourceManagerClient">>

\* the constructor that creates each API client
Constructor ==
    [computeClient |-> "compute.NewInstancesRESTClient",
     containerClient |-> "container.NewClusterManagerRESTClient",
     runClient |-> "run.NewServicesRESTClient",
     resourceManagerClient |-> "resourcemanager.NewProjectsRESTClient"]

NoCloses == [c \in Range(ClientOrder) |-> 0]

\* NewClient has not returned; err is the error of the constructor that failed
ClientPending(err) == [returned |-> FALSE, client |-> <<>>, err |-> err]

\* return nil, err
ClientError(err) == [returned |-> TRUE, client |-> <<>>, err |-> err]

\* return &Client{...}, nil
ClientReturned(id) ==
    [returned |-> TRUE,
     client |-> <<[ProjectID |-> id, ComputeClient |-> "computeClient",
                   ContainerClient |-> "containerClient", RunClient |-> "runClient",
                   ResourceManager |-> "resourceManagerClient"]>>,
     err |-> Nil]

\* GetAccessMatrix is called on a Client that NewClient returned
Init ==
    /\ projectID = ProjectID
    /\ opened = ClientOrder
    /\ closes = NoCloses
    /\ newClient = ClientReturned(ProjectID)
    /\ pc = "GetUsers"
    /\ users = <<>>
    /\ validUsers = {}
    /\ directory = <<>>
    /\ inv = <<>>
    /\ resourcesMap = EmptyMap
    /\ accessMap = EmptyMap
    /\ streamRead = <<>>
    /\ directFacts = {}
    /\ inheritedFacts = {}
    /\ calls = <<>>
    /\ result = NotReturned

\* c.GetUsers() fails: GetAccessMatrix returns its error
GetUsersFail ==
    /\ pc = "GetUsers"
    /\ \E cause \in Causes : result' = GetUsersFailure(cause)
    /\ calls' = Append(calls, Call("ResourceManager.GetIamPolicy", "error"))
    /\ pc' = "Done"
    /\ UNCHANGED clientVars
    /\ UNCHANGED <<users, validUsers, directory, inv, resourcesMap, accessMap, streamRead,
                   directFacts, inheritedFacts>>

\* c.GetUsers() succeeds; its slice is filled by ranging over usersMap
GetUsersOk ==
    /\ pc = "GetUsers"
    /\ \E bindings \in DirectoryPolicies :
          LET usersMap == usersMapOf(bindings)
          IN  /\ directory' = <<bindings>>
              /\ \E ord \in Orders(DOMAIN usersMap) :
                    users' = [i \in 1..Len(ord) |-> usersMap[ord[i]]]
              /\ validUsers' = {usersMap[m].Email : m \in DOMAIN usersMap}
    /\ calls' = Append(calls, Call("ResourceManager.GetIamPolicy", "ok"))
    /\ pc' = "NewAssetClient"
    /\ UNCHANGED clientVars
    /\ UNCHANGED <<inv, resourcesMap, accessMap, streamRead, directFacts, inheritedFacts,
                   result>>

\* asset.NewClient(ctx) fails
NewAssetClientFail ==
    /\ pc = "NewAssetClient"
    /\ \E cause \in Causes :
          result' = ReturnError(Wrap("failed to create asset client", cause))
    /\ calls' = Append(calls, Call("asset.NewClient", "error"))
    /\ pc' = "Done"
    /\ UNCHANGED clientVars
    /\ UNCHANGED <<users, validUsers, directory, inv, resourcesMap, accessMap, streamRead,
                   directFacts, inheritedFacts>>

NewAssetClientOk ==
    /\ pc = "NewAssetClient"
    /\ calls' = Append(calls, Call("asset.NewClient", "ok"))
    /\ pc' = "GetResources"
    /\ UNCHANGED clientVars
    /\ UNCHANGED <<users, validUsers, directory, inv, resourcesMap, accessMap, streamRead,
                   directFacts, inheritedFacts, result>>

\* 1. Pre-populate with known resources, the backends answering world; an
\* error is only printed
GetResourcesAnswered(world) ==
    /\ pc = "GetResources"
    /\ LET known == GetResources(world)
       IN  /\ inv' = <<world>>
           /\ resourcesMap' = KnownResourcesMap(known)
           /\ calls' = Append(calls, Call("GetResources",
                                          IF known.err = Nil THEN "ok" ELSE "error"))
    /\ pc' = "Stream"
    /\ UNCHANGED clientVars
    /\ UNCHANGED <<users, validUsers, directory, accessMap, streamRead, directFacts,
                   inheritedFacts, result>>

CallGetResources == \E world \in Worlds : GetResourcesAnswered(world)

\* the policy results the iterator can still return: SearchAllIamPolicies
\* returns one result per resource
NextPolicies ==
    {p \in StreamPolicies : \A i \in DOMAIN streamRead : streamRead[i].Resource # p.Resource}

\* the loop body, lines 85-125, on the accumulated state acc
ProcessPolicy(acc, policy) ==
    LET resourceID == policy.Resource
    IN  ProcessPairs(acc, resourceID, extractResourceName(resourceID),
                     extractResourceType(resourceID), Pairs(policy.Bindings))

\* the accumulated state after the loop has read the results policies
RECURSIVE FactsAfter(_, _)
FactsAfter(acc, policies) ==
    IF policies = <<>>
    THEN acc
    ELSE FactsAfter(ProcessPolicy(acc, Head(policies)), Tail(policies))

\* resourcesMap after the loop has read the results policies
RECURSIVE ResourcesAfter(_, _)
ResourcesAfter(rm, policies) ==
    IF policies = <<>>
    THEN rm
    ELSE ResourcesAfter(TrackResource(rm, Head(policies).Resource), Tail(policies))

\* policy, err := it.Next() returns policy
PolicyRead(policy) ==
    /\ pc = "Stream"
    /\ LET acc == ProcessPolicy([users |-> users, validUsers |-> validUsers,
                                 accessMap |-> accessMap, directFacts |-> directFacts],
                                policy)
       IN  /\ streamRead' = Append(streamRead, policy)
           /\ resourcesMap' = TrackResource(resourcesMap, policy.Resource)
           /\ users' = acc.users
           /\ validUsers' = acc.validUsers
           /\ accessMap' = acc.accessMap
           /\ directFacts' = acc.directFacts
    /\ calls' = Append(calls, Call("it.Next", "ok"))
    /\ UNCHANGED clientVars
    /\ UNCHANGED <<pc, directory, inv, inheritedFacts, result>>

StreamNext ==
    /\ Len(streamRead) < MaxStream
    /\ \E policy \in NextPolicies : PolicyRead(policy)

\* StreamFailure returning what was assembled so far instead of the error
StreamFailurePartial(cause) ==
    ReturnMatrix(AccessMatrix(users, Resources(resourcesMap),
                              AccessEntries(accessMap, resourcesMap)))

\* what GetAccessMatrix returns when it.Next() fails with cause (line 82)
StreamFailure(cause) == ReturnError(Wrap("failed to iterate policies", cause))

\* it.Next() returns an error other than iterator.Done
StreamFail ==
    /\ pc = "Stream"
    /\ \E cause \in Causes : result' = StreamFailure(cause)
    /\ calls' = Append(calls, Call("it.Next", "error"))
    /\ pc' = "Done"
    /\ UNCHANGED clientVars
    /\ UNCHANGED <<users, validUsers, directory, inv, resourcesMap, accessMap, streamRead,
                   directFacts, inheritedFacts>>

\* it.Next() returns iterator.Done
StreamDone ==
    /\ pc = "Stream"
    /\ calls' = Append(calls, Call("it.Next", "done"))
    /\ pc' = "Inherit"
    /\ UNCHANGED clientVars
    /\ UNCHANGED <<users, validUsers, directory, inv, resourcesMap, accessMap, streamRead,
                   directFacts, inheritedFacts, result>>

\* Step 2: resolve inherited permissions from project-level IAM
Inherit ==
    /\ pc = "Inherit"
    /\ \E stored \in StoredByInheritance(accessMap, resourcesMap) :
          /\ accessMap' = WithStored(accessMap, stored)
          /\ inheritedFacts' = Range(stored)
    /\ pc' = "Assemble"
    /\ UNCHANGED clientVars
    /\ UNCHANGED <<users, validUsers, directory, inv, resourcesMap, streamRead,
                   directFacts, calls, result>>

\* Convert maps to slices, group the roles and return the matrix
Assemble ==
    /\ pc = "Assemble"
    /\ result' = ReturnMatrix(AccessMatrix(users, Resources(resourcesMap),
                                           AccessEntries(accessMap, resourcesMap)))
    /\ pc' = "Done"
    /\ UNCHANGED clientVars
    /\ UNCHANGED <<users, validUsers, directory, inv, resourcesMap, accessMap, streamRead,
                   directFacts, inheritedFacts, calls>>

Next ==
    \/ GetUsersFail
    \/ GetUsersOk
    \/ NewAssetClientFail
    \/ NewAssetClientOk
    \/ CallGetResources
    \/ StreamNext
    \/ StreamFail
    \/ StreamDone
    \/ Inherit
    \/ Assemble

Spec == Init /\ [][Next]_vars

----------------------------------------------------------------------------
(* GetAccessMatrix with the returned access entries kept as the slice the  *)
(* code appends to, over a project with few resources                      *)

\* the orders in which the roles of group g may be appended to
\* userResourceRoles[g] while ranging over accessMap (lines 181-185)
RoleSlices(am, g) ==
    {[i \in 1..Len(ord) |-> am[ord[i]].Roles[1]] : ord \in Orders(KeysOfGroup(am, g))}

\* the slices accessEntries may be after ranging over userResourceRoles
\* (lines 187-205)
AccessEntrySlices(am, rm) ==
    LET emitted == {g \in GroupKeys(am) : Emitted(rm, g)}
    IN  {[i \in 1..Len(ord) |-> GroupedEntry(rm, ord[i], roles[ord[i]])] :
            ord \in Orders(emitted),
            roles \in Products([g \in emitted |-> RoleSlices(am, g)])}

\* a policy result naming the Cloud Run service api by the identifier the
\* inventory gives it
JoinPolicy == PolicyResult(Service1.Name, <<Binding(RoleRunInvoker, <<Alice, Bob>>)>>)

SmallPolicies ==
    { PolicyResult(ProjectRes, <<Binding(RoleEditor, <<Alice>>)>>), JoinPolicy }

\* no VM; the cluster listing fails or lists c1; two services
SmallWorlds == {w \in Worlds : w.run.err = Nil /\ \A z \in DOMAIN w.vm : w.vm[z].instances = <<>>}

CallGetResourcesSmall == \E world \in SmallWorlds : GetResourcesAnswered(world)

StreamNextSmall ==
    \E policy \in SmallPolicies :
        /\ \A i \in DOMAIN streamRead : streamRead[i].Resource # policy.Resource
        /\ PolicyRead(policy)

\* Convert maps to slices, group the roles and return the matrix
AssembleSlices ==
    /\ pc = "Assemble"
    /\ \E accessEntries \in AccessEntrySlices(accessMap, resourcesMap) :
          result' = ReturnMatrix(AccessMatrix(users, Resources(resourcesMap), accessEntries))
    /\ pc' = "Done"
    /\ UNCHANGED clientVars
    /\ UNCHANGED <<users, validUsers, directory, inv, resourcesMap, accessMap, streamRead,
                   directFacts, inheritedFacts, calls>>

NextSmall ==
    \/ GetUsersFail
    \/ GetUsersOk
    \/ NewAssetClientFail
    \/ NewAssetClientOk
    \/ CallGetResourcesSmall
    \/ StreamNextSmall
    \/ StreamFail
    \/ StreamDone
    \/ Inherit
    \/ AssembleSlices

SpecSmall == Init /\ [][NextSmall]_vars

----------------------------------------------------------------------------
(* A stream of at most three results: on the project, a VM and a bucket *)

StagePolicies ==
    { PolicyResult(ProjectRes, <<Binding(RoleEditor, <<Alice>>)>>),
      PolicyResult(Vm1Res, <<Binding(RoleComputeAdmin, <<Alice, Bob>>)>>),
      PolicyResult(BucketRes, <<Binding(RoleStorageAdmin, <<AwsRole, Alice>>)>>) }

StreamNextStages ==
    \E policy \in StagePolicies :
        /\ \A i \in DOMAIN streamRead : streamRead[i].Resource # policy.Resource
        /\ PolicyRead(policy)

NextStages ==
    \/ GetUsersFail
    \/ GetUsersOk
    \/ NewAssetClientFail
    \/ NewAssetClientOk
    \/ CallGetResources
    \/ StreamNextStages
    \/ StreamFail
    \/ StreamDone
    \/ Inherit
    \/ Assemble

SpecStages == Init /\ [][NextStages]_vars

----------------------------------------------------------------------------
(* client: NewClient, one action per constructor call, Close call and return *)

ProjectIDs == {ProjectID, <<"q">>}

\* the errors a constructor may return
ClientCauses == { <<"permission denied">>, <<"unavailable">>, <<"no credentials">> }

InitClient ==
    /\ projectID \in ProjectIDs
    /\ opened = <<>>
    /\ closes = NoCloses
    /\ newClient = ClientPending(Nil)
    /\ pc = "NewClient"
    /\ users = <<>>
    /\ validUsers = {}
    /\ directory = <<>>
    /\ inv = <<>>
    /\ resourcesMap = EmptyMap
    /\ accessMap = EmptyMap
    /\ streamRead = <<>>
    /\ directFacts = {}
    /\ inheritedFacts = {}
    /\ calls = <<>>
    /\ result = NotReturned

\* the API client the next constructor call creates
NextClient == ClientOrder[Len(opened) + 1]

\* CloseOnFailure leaving out the client created last
CloseOnFailureButLast(created) == SubSeq(created, 1, Len(created) - 1)

\* the clients an error branch closes, in order: all of those created
\* before the failing constructor (lines 33, 40-41, 48-50)
CloseOnFailure(created) == created

\* the clients the error branch has still to close
ToClose == SelectSeq(CloseOnFailure(opened), LAMBDA c : closes[c] = 0)

\* a constructor returns a client; after the fourth, NewClient returns the Client
ConstructorOk ==
    /\ pc = "NewClient"
    /\ newClient = ClientPending(Nil)
    /\ Len(opened) < Len(ClientOrder)
    /\ opened' = Append(opened, NextClient)
    /\ calls' = Append(calls, Call(Constructor[NextClient], "ok"))
    /\ IF Len(opened') = Len(ClientOrder)
       THEN newClient' = ClientReturned(projectID) /\ pc' = "Done"
       ELSE UNCHANGED <<newClient, pc>>
    /\ UNCHANGED <<projectID, closes>>
    /\ UNCHANGED matrixVars

\* a constructor returns an error: the error branch is entered
ConstructorFail ==
    /\ pc = "NewClient"
    /\ newClient = ClientPending(Nil)
    /\ Len(opened) < Len(ClientOrder)
    /\ \E cause \in ClientCauses : newClient' = ClientPending(cause)
    /\ calls' = Append(calls, Call(Constructor[NextClient], "error"))
    /\ UNCHANGED <<pc, projectID, opened, closes>>
    /\ UNCHANGED matrixVars

\* the error branch calls Close() on the next client; what Close() returns
\* is discarded
CloseCreated ==
    /\ pc = "NewClient"
    /\ newClient.err # Nil
    /\ ToClose # <<>>
    /\ closes' = [closes EXCEPT ![Head(ToClose)] = @ + 1]
    /\ \E outcome \in {"ok", "error"} :
          calls' = Append(calls, Call(Head(ToClose) \o ".Close", outcome))
    /\ UNCHANGED <<pc, projectID, opened, newClient>>
    /\ UNCHANGED matrixVars

\* return nil, err
ReturnConstructorError ==
    /\ pc = "NewClient"
    /\ newClient.err # Nil
    /\ ToClose = <<>>
    /\ newClient' = ClientError(newClient.err)
    /\ pc' = "Done"
    /\ UNCHANGED <<projectID, opened, closes, calls>>
    /\ UNCHANGED matrixVars

NextClientStep ==
    \/ ConstructorOk
    \/ ConstructorFail
    \/ CloseCreated
    \/ ReturnConstructorError

SpecClient == InitClient /\ [][NextClientStep]_vars

----------------------------------------------------------------------------
(* Properties *)

\* GetAccessMatrix has returned a matrix
ReturnedMatrix == pc = "Done" /\ result.err = Nil /\ result.matrix # <<>>

Matrix == result.matrix[1]

\* the access entries and the resources of the returned matrix
AccessOut == DOMAIN Matrix.Access
ResourcesOut == DOMAIN Matrix.Resources

\* the inheritance step has run
InheritanceRan == pc = "Assemble" \/ ReturnedMatrix

Triple(userEmail, resourceID, role) ==
    [UserEmail |-> userEmail, ResourceID |-> resourceID, Role |-> role]

TripleOf(e) == Triple(e.UserEmail, e.ResourceID, e.Roles[1])

\* the (principal, resource, role) triples bound in the policy results read
StreamTriples ==
    UNION {{Triple(parseUser(pr.Member).Email, streamRead[i].Resource, pr.Role) :
               pr \in Range(Pairs(streamRead[i].Bindings))} : i \in DOMAIN streamRead}

\* C1: the inheritance step stores an entry for (principal, resource, role)
\* only when the policy stream bound no such triple, and every entry the
\* policy loop stored is still in accessMap, unchanged, after the step.
C1_InheritedNeverOverridesDirect ==
    InheritanceRan =>
        /\ \A e \in inheritedFacts : TripleOf(e) \notin StreamTriples
        /\ \A d \in directFacts :
              /\ KeyOfEntry(d) \in DOMAIN accessMap
              /\ accessMap[KeyOfEntry(d)] = d

\* C1 witness: a principal holds the same applicable role on the project and,
\* directly, on a child resource, and the inheritance step has stored entries
C1_Witness ==
    /\ ReturnedMatrix
    /\ inheritedFacts # {}
    /\ \E g \in directFacts, d \in directFacts :
          /\ g.ResourceID = projectResourceID
          /\ d.ResourceID # projectResourceID
          /\ d.UserEmail = g.UserEmail
          /\ d.Roles = g.Roles
          /\ contains(getApplicableResourceTypes(g.Roles[1]), d.ResourceType)

\* C2: the principal of every returned access entry is in the returned
\* principal list
C2_EntryPrincipalsListed ==
    ReturnedMatrix =>
        \A e \in AccessOut : \E i \in DOMAIN Matrix.Users : Matrix.Users[i].Email = e.UserEmail

\* the principals the project directory named
DirectoryEmails == {parseUser(m).Email : m \in MembersOf(directory[1])}

\* C2 witness: an entry is returned for a principal that the project
\* directory does not name
C2_Witness ==
    /\ ReturnedMatrix
    /\ \E e \in AccessOut : e.UserEmail \notin DirectoryEmails

\* C3: each (kind, name) join key is represented by exactly one Resource of
\* the returned matrix, also when the inventory lists a VM under its numeric
\* id and the policy stream names it by its hierarchical asset name
C3_OneResourcePerJoinKey ==
    ReturnedMatrix =>
        \A r1 \in ResourcesOut, r2 \in ResourcesOut :
            (r1.Type = r2.Type /\ r1.Name = r2.Name) => r1 = r2

\* the resources the two sources delivered: those GetResources returned and
\* those named by the policy results read
DeliveredResources ==
    (IF inv = <<>> THEN {} ELSE Range(GetResources(inv[1]).resources))
    \cup {StreamResource(streamRead[i].Resource) : i \in DOMAIN streamRead}

\* two delivered resources with different names, one name containing the other
SubstringNamed(a, b) ==
    /\ a.Name # b.Name
    /\ Contains(a.Name, b.Name) \/ Contains(b.Name, a.Name)

\* the roles the policy stream gives userEmail on resourceID, directly or by
\* a grant on the project
JustifiedRoles(userEmail, resourceID) ==
    {t.Role : t \in {x \in StreamTriples :
                        /\ x.UserEmail = userEmail
                        /\ x.ResourceID \in {resourceID, projectResourceID}}}

\* C4: two resources whose names contain one another are both returned, each
\* under its own identifier and name, and an access entry of either lists
\* only roles bound to that resource or to the project
C4_SubstringNamesNotMerged ==
    ReturnedMatrix =>
        \A a \in DeliveredResources, b \in DeliveredResources :
            SubstringNamed(a, b) =>
                /\ \E ra \in ResourcesOut, rb \in ResourcesOut :
                      /\ ra.ID = a.ID /\ ra.Name = a.Name
                      /\ rb.ID = b.ID /\ rb.Name = b.Name
                      /\ ra # rb
                /\ \A e \in AccessOut :
                      e.ResourceID = b.ID =>
                          /\ e.ResourceName = b.Name
                          /\ DOMAIN e.Roles \subseteq JustifiedRoles(e.UserEmail, b.ID)

\* C4 witness: two buckets, the name of one contained in the name of the
\* other, both with an access entry of their own
C4_Witness ==
    /\ ReturnedMatrix
    /\ \E e1 \in AccessOut, e2 \in AccessOut :
          /\ e1.ResourceID = BucketRes
          /\ e2.ResourceID = LogBucketRes
          /\ Contains(e2.ResourceName, e1.ResourceName)
          /\ e1.UserEmail # e2.UserEmail

\* it.Next() has failed
StreamFailed == \E i \in DOMAIN calls : calls[i] = Call("it.Next", "error")

\* C5: when the policy stream fails, GetAccessMatrix returns an error and no
\* matrix
C5_StreamFailureIsFatal ==
    StreamFailed =>
        /\ pc = "Done"
        /\ result.returned
        /\ result.err # Nil
        /\ Head(result.err) = "failed to iterate policies"
        /\ result.matrix = <<>>

\* C5 witness: the stream fails after entries were read and facts recorded
C5_Witness ==
    /\ StreamFailed
    /\ Len(streamRead) >= 1
    /\ directFacts # {}
    /\ result.returned

\* the project directory fetch has failed
GetUsersFailed ==
    calls # <<>> /\ calls[1] = Call("ResourceManager.GetIamPolicy", "error")

\* C6: when the project directory fetch fails, GetAccessMatrix returns an
\* error that names the stage and carries the cause, no matrix, and makes no
\* further call
C6_DirectoryFailureIsFatal ==
    GetUsersFailed =>
        /\ pc = "Done"
        /\ result.returned
        /\ result.matrix = <<>>
        /\ Len(result.err) >= 2
        /\ Head(result.err) = "failed to get IAM policy"
        /\ Tail(result.err) \in Causes
        /\ Len(calls) = 1
        /\ inv = <<>>
        /\ streamRead = <<>>
        /\ resourcesMap = EmptyMap
        /\ accessMap = EmptyMap

\* C6 witness: the directory fetch has failed and GetAccessMatrix has returned
C6_Witness == GetUsersFailed /\ result.returned

\* the resources of the backends whose listing succeeded (a zone whose
\* listing fails still delivers the instances returned before the failure)
ListedResources(world) ==
    Range(getGKEClusters(world.gke).resources)
    \cup Range(getVMs(world.vm).resources)
    \cup Range(getCloudRunServices(world.run).resources)

\* C7: after the inventory fetch, every resource that a backend listed
\* successfully is tracked, whichever other backend failed
C7_PartialInventoryKept ==
    inv # <<>> =>
        \A r \in ListedResources(inv[1]) :
            r.ID \in DOMAIN resourcesMap /\ resourcesMap[r.ID] = r

InventoryFailed == \E i \in DOMAIN calls : calls[i] = Call("GetResources", "error")

StreamExhausted == \E i \in DOMAIN calls : calls[i] = Call("it.Next", "done")

\* the returned matrix gives userEmail the role on resourceID
Granted(userEmail, resourceID, role) ==
    \E e \in AccessOut :
        /\ e.UserEmail = userEmail
        /\ e.ResourceID = resourceID
        /\ role \in DOMAIN e.Roles

\* C8: when the inventory fetch fails and the policy stream does not, the
\* stream is read to its end and the returned matrix holds every triple the
\* stream bound and, for every grant on the project, the inherited fact on
\* every other resource of the stream that the role applies to
C8_InventoryFailureNotFatal ==
    (InventoryFailed /\ pc = "Done" /\ ~StreamFailed) =>
        /\ StreamExhausted
        /\ ReturnedMatrix
        /\ \A t \in StreamTriples : Granted(t.UserEmail, t.ResourceID, t.Role)
        /\ \A t \in StreamTriples, i \in DOMAIN streamRead :
              (/\ t.ResourceID = projectResourceID
               /\ streamRead[i].Resource # projectResourceID
               /\ contains(getApplicableResourceTypes(t.Role),
                           extractResourceType(streamRead[i].Resource)))
              => Granted(t.UserEmail, streamRead[i].Resource, t.Role)

\* the roles of the facts accumulated for (userEmail, resourceID)
AccumulatedRoles(userEmail, resourceID) ==
    {accessMap[k].Roles[1] :
        k \in {x \in DOMAIN accessMap : /\ accessMap[x].UserEmail = userEmail
                                         /\ accessMap[x].ResourceID = resourceID}}

\* C9: the returned matrix holds exactly one entry for every (principal,
\* resource) pair with accumulated facts and for no other pair, and the entry
\* lists each role of the pair's facts exactly once
C9_GroupingExact ==
    ReturnedMatrix =>
        /\ \A k \in DOMAIN accessMap :
              LET es == {e \in AccessOut : /\ e.UserEmail = accessMap[k].UserEmail
                                           /\ e.ResourceID = accessMap[k].ResourceID}
              IN  /\ Cardinality(es) = 1
                  /\ \A e \in es : Matrix.Access[e] = 1
        /\ \A e \in AccessOut :
              /\ DOMAIN e.Roles = AccumulatedRoles(e.UserEmail, e.ResourceID)
              /\ \A r \in DOMAIN e.Roles : e.Roles[r] = 1

\* C10: every returned access entry lists at least one role
C10_RolesNeverEmpty ==
    ReturnedMatrix =>
        \A e \in AccessOut : DOMAIN e.Roles # {} /\ \A r \in DOMAIN e.Roles : e.Roles[r] >= 1

\* C10 witness: a matrix with entries is returned although the stream held a
\* binding without members
C10_Witness ==
    /\ ReturnedMatrix
    /\ AccessOut # {}
    /\ \E i \in DOMAIN streamRead : \E j \in DOMAIN streamRead[i].Bindings :
          streamRead[i].Bindings[j].Members = <<>>

\* the (principal, resource, role) facts held by an access map
FactsOf(am) == {TripleOf(am[k]) : k \in DOMAIN am}

\* C11: applied a second time, to the facts and the resources the first
\* application left, the inheritance step stores no entry, so the set of
\* (principal, resource, role) facts after two applications is the set after
\* one, and no entry is changed
C11_InheritanceIdempotent ==
    InheritanceRan =>
        \A stored \in StoredByInheritance(accessMap, resourcesMap) :
            /\ stored = EmptyMap
            /\ WithStored(accessMap, stored) = accessMap
            /\ FactsOf(WithStored(accessMap, stored)) = FactsOf(accessMap)

\* C11 witness: the first application has stored inherited facts next to a
\* direct fact on a child resource
C11_Witness ==
    /\ pc = "Assemble"
    /\ inheritedFacts # {}
    /\ \E d \in directFacts : d.ResourceID # projectResourceID

\* roles/owner, roles/editor and roles/viewer
BasicRoles == {RolePattern("owner"), RoleEditor, RoleViewer}

\* C12: after the inheritance step, a principal that the policy stream binds
\* to roles/owner, roles/editor or roles/viewer on the project holds that
\* role on every tracked resource other than the project, whatever its kind
C12_BasicRolesReachAllKinds ==
    InheritanceRan =>
        \A t \in StreamTriples :
            (t.ResourceID = projectResourceID /\ t.Role \in BasicRoles) =>
                \A id \in (DOMAIN resourcesMap) \ {projectResourceID} :
                    Triple(t.UserEmail, id, t.Role) \in FactsOf(accessMap)

\* the role prefixes of the service-specific rows of the applicability table
\* and the kind each names
ServiceKinds ==
    { [prefix |-> RolePattern("storage") \o <<Dot>>, kind |-> TypeStorage],
      [prefix |-> RolePattern("compute") \o <<Dot>>, kind |-> TypeVM],
      [prefix |-> RolePattern("container") \o <<Dot>>, kind |-> TypeGKE],
      [prefix |-> RolePattern("run") \o <<Dot>>, kind |-> TypeCloudRun],
      [prefix |-> RolePattern("bigquery") \o <<Dot>>, kind |-> TypeBigQuery],
      [prefix |-> RolePattern("iam") \o <<Dot>>, kind |-> TypeServiceAccount] }

\* the inheritance step stored a fact giving userEmail the role on resourceID
InheritedOn(userEmail, resourceID, role) ==
    \E e \in inheritedFacts : TripleOf(e) = Triple(userEmail, resourceID, role)

\* C13: after the inheritance step, a principal that the policy stream binds
\* on the project to a role beginning with a service prefix of the table holds
\* that role on every tracked resource of the prefix's kind, and the step
\* stored no fact with that role on a resource of any other kind
C13_ServiceRolesReachTheirKind ==
    InheritanceRan =>
        \A t \in StreamTriples, sk \in ServiceKinds :
            (t.ResourceID = projectResourceID /\ HasPrefix(t.Role, sk.prefix)) =>
                \A id \in (DOMAIN resourcesMap) \ {projectResourceID} :
                    IF resourcesMap[id].Type = sk.kind
                    THEN Triple(t.UserEmail, id, t.Role) \in FactsOf(accessMap)
                    ELSE ~InheritedOn(t.UserEmail, id, t.Role)

\* C13 witness: grants of service-specific roles on the project were
\* propagated to a service account and to a resource the inventory listed,
\* next to tracked resources of other kinds
C13_Witness ==
    /\ pc = "Assemble"
    /\ \E e \in inheritedFacts :
          e.Roles = <<RoleServiceAccountUser>> /\ e.ResourceType = TypeServiceAccount
    /\ \E e \in inheritedFacts :
          /\ e.ResourceType \in {TypeVM, TypeGKE, TypeCloudRun}
          /\ e.ResourceID \in {r.ID : r \in Range(GetResources(inv[1]).resources)}
          /\ \E sk \in ServiceKinds : HasPrefix(e.Roles[1], sk.prefix)
    /\ Cardinality({resourcesMap[id].Type : id \in DOMAIN resourcesMap}) >= 4

\* the role prefixes of the applicability table
TablePrefixes == BasicRoles \cup {sk.prefix : sk \in ServiceKinds}

\* C14: the inheritance step stores no fact for a role that does not begin
\* with one of the role prefixes of the applicability table
C14_UnlistedRolesNotPropagated ==
    InheritanceRan =>
        \A e \in inheritedFacts : \E pre \in TablePrefixes : HasPrefix(e.Roles[1], pre)

\* the roles the returned matrix gives userEmail on resourceID
RolesOut(userEmail, resourceID) ==
    UNION {DOMAIN e.Roles : e \in {x \in AccessOut : /\ x.UserEmail = userEmail
                                                     /\ x.ResourceID = resourceID}}

\* the roles the policy stream binds userEmail to on resourceID
BoundRoles(userEmail, resourceID) ==
    {t.Role : t \in {x \in StreamTriples : /\ x.UserEmail = userEmail
                                           /\ x.ResourceID = resourceID}}

\* the principals the policy stream names
StreamEmails == {t.UserEmail : t \in StreamTriples}

\* C15: every fact the inheritance step stored is on a tracked resource other
\* than the project, and in the returned matrix the roles of every principal
\* on the project are exactly the roles the policy stream binds it to there
C15_ProjectRolesAreDirect ==
    ReturnedMatrix =>
        /\ \A e \in inheritedFacts :
              e.ResourceID # projectResourceID /\ e.ResourceID \in DOMAIN resourcesMap
        /\ \A u \in StreamEmails \cup {e.UserEmail : e \in AccessOut} :
              RolesOut(u, projectResourceID) = BoundRoles(u, projectResourceID)

\* the VMs the inventory returned
InventoryVMs ==
    IF inv = <<>>
    THEN {}
    ELSE {r \in Range(GetResources(inv[1]).resources) : r.Type = TypeVM}

\* the policy stream holds a result for the VM vm, under any identifier
StreamNames(vm) ==
    \E i \in DOMAIN streamRead :
        \/ streamRead[i].Resource = vm.ID
        \/ /\ extractResourceType(streamRead[i].Resource) = TypeVM
           /\ extractResourceName(streamRead[i].Resource) = vm.Name

\* the returned entries for userEmail on the resource with identifier id
EntriesOut(userEmail, id) ==
    {e \in AccessOut : e.UserEmail = userEmail /\ e.ResourceID = id}

\* C16: when the policy stream binds a principal to roles/editor, and to no
\* other role, on the project, the inventory returned a VM and the stream
\* holds no result for that VM, the returned matrix has one entry for the
\* principal on the VM, and its roles are exactly roles/editor
C16_EditorInheritedOnInventoryVM ==
    ReturnedMatrix =>
        \A u \in StreamEmails, vm \in InventoryVMs :
            (BoundRoles(u, projectResourceID) = {RoleEditor} /\ ~StreamNames(vm)) =>
                \E e \in AccessOut :
                    /\ EntriesOut(u, vm.ID) = {e}
                    /\ Matrix.Access[e] = 1
                    /\ e.ResourceName = vm.Name
                    /\ e.ResourceType = TypeVM
                    /\ e.Roles = BagOf(<<RoleEditor>>)

\* C16 witness: a matrix is returned after the stream bound alice to
\* roles/editor on the project, with the VM vm-1 from the inventory and no
\* stream result for it
C16_Witness ==
    /\ ReturnedMatrix
    /\ BoundRoles(<<"alice">>, projectResourceID) = {RoleEditor}
    /\ \E vm \in InventoryVMs :
          /\ vm.Name = <<"vm-1">>
          /\ ~StreamNames(vm)
          /\ EntriesOut(<<"alice">>, vm.ID) # {}

\* the identifiers under which the policy stream names the VM vm
StreamIDs(vm) ==
    {streamRead[i].Resource : i \in
        {j \in DOMAIN streamRead :
            \/ streamRead[j].Resource = vm.ID
            \/ /\ extractResourceType(streamRead[j].Resource) = TypeVM
               /\ extractResourceName(streamRead[j].Resource) = vm.Name}}

\* the returned entries of userEmail for the VM vm, under any identifier
EntriesForVM(userEmail, vm) ==
    {e \in AccessOut : /\ e.UserEmail = userEmail
                       /\ e.ResourceID \in {vm.ID} \cup StreamIDs(vm)}

\* C17: when the policy stream binds a principal to roles/editor, and to no
\* other role, on the project and to roles/viewer, and to no other role, on a
\* VM that the inventory returned too, the returned matrix has one entry for
\* the principal on that VM, and its roles are exactly roles/editor and
\* roles/viewer
C17_InheritedAndDirectOnSameVM ==
    ReturnedMatrix =>
        \A u \in StreamEmails, vm \in InventoryVMs :
            (/\ BoundRoles(u, projectResourceID) = {RoleEditor}
             /\ StreamIDs(vm) # {}
             /\ \A id \in StreamIDs(vm) : BoundRoles(u, id) = {RoleViewer}) =>
                /\ Cardinality(EntriesForVM(u, vm)) = 1
                /\ \A e \in EntriesForVM(u, vm) :
                      e.Roles = BagOf(<<RoleEditor, RoleViewer>>)

\* the member strings parseUser was applied to: those of the project
\* directory and those of the policy results read
MembersSeen ==
    (IF directory = <<>> THEN {} ELSE MembersOf(directory[1]))
    \cup UNION {MembersOf(streamRead[i].Bindings) : i \in DOMAIN streamRead}

\* the principal kinds by member prefix
PrefixKinds ==
    { [prefix |-> PrefixUser, kind |-> <<"user">>],
      [prefix |-> PrefixServiceAccount, kind |-> <<"serviceAccount">>],
      [prefix |-> PrefixGroup, kind |-> <<"group">>],
      [prefix |-> PrefixDomain, kind |-> <<"domain">>] }

\* C18: a member string that starts with user:, serviceAccount:, group: or
\* domain: is parsed to that kind, with the rest of the string as identifier,
\* also when the rest is empty; any other member string is parsed to kind
\* other with the whole string as identifier
C18_ParseUserByPrefix ==
    \A m \in MembersSeen :
        /\ \A pk \in PrefixKinds :
              HasPrefix(m, pk.prefix) => parseUser(m) = User(Strip(m, pk.prefix), pk.kind)
        /\ (\A pk \in PrefixKinds : ~HasPrefix(m, pk.prefix)) =>
              parseUser(m) = User(m, <<"other">>)

\* C19: the principal list holds at most one principal per identifier
C19_OnePrincipalPerIdentifier ==
    \A i \in DOMAIN users, j \in DOMAIN users : users[i].Email = users[j].Email => i = j

\* the kind the lookup table of the classifier assigns to an identifier
TableKind(resourceID) ==
    IF Contains(resourceID, GoogleApis("cloudresourcemanager") \o <<Slash, "projects">>)
    THEN TypeProject
    ELSE IF Contains(resourceID, GoogleApis("cloudresourcemanager") \o <<Slash, "organizations">>)
    THEN TypeOrganization
    ELSE IF Contains(resourceID, GoogleApis("compute")) THEN TypeVM
    ELSE IF Contains(resourceID, GoogleApis("container")) THEN TypeGKE
    ELSE IF Contains(resourceID, GoogleApis("run")) THEN TypeCloudRun
    ELSE IF Contains(resourceID, GoogleApis("storage")) THEN TypeStorage
    ELSE IF Contains(resourceID, GoogleApis("bigquery")) THEN TypeBigQuery
    ELSE IF Contains(resourceID, GoogleApis("iam")) THEN TypeServiceAccount
    ELSE TypeOther

\* C20: a resource tracked from the policy stream has the kind the lookup
\* table assigns to its identifier, and kind other when no table entry matches
C20_KindFromLookupTable ==
    \A i \in DOMAIN streamRead :
        LET id == streamRead[i].Resource
        IN  /\ id \in DOMAIN resourcesMap
            /\ resourcesMap[id].Type = TableKind(id)
            /\ \A e \in directFacts : e.ResourceID = id => e.ResourceType = TableKind(id)

\* C21: the access entries are returned in one order, with the roles of each
\* entry in one order: every slice a call over the same collaborator outputs
\* can return is the slice this call returned
C21_EntryOrderDeterministic ==
    ReturnedMatrix =>
        \A accessEntries \in AccessEntrySlices(accessMap, resourcesMap) :
            accessEntries = Matrix.Access

\* the grants map that enrichment gives a resource whose GetIamPolicy call
\* ended as policy: empty after a failure, the bindings otherwise
Enriched(iam, policy) ==
    IF policy.err # Nil
    THEN iam = EmptyMap
    ELSE /\ DOMAIN iam = {policy.Bindings[i].Role : i \in DOMAIN policy.Bindings}
         /\ \A i \in DOMAIN policy.Bindings :
               iam[policy.Bindings[i].Role] = policy.Bindings[i].Members

\* the instances the zone iterators returned
ListedInstances(listing) ==
    UNION {Range(listing[z].instances) : z \in DOMAIN listing}

\* C22: every instance and every service that was listed is emitted, with an
\* empty grants map when its GetIamPolicy call failed and with the bindings
\* of its policy otherwise, and neither getVMs nor getCloudRunServices
\* returns the error of a GetIamPolicy call
C22_EnrichmentFailureSwallowed ==
    inv # <<>> =>
        LET vms == getVMs(inv[1].vm)
            run == getCloudRunServices(inv[1].run)
        IN  /\ vms.err = Nil
            /\ \A instance \in ListedInstances(inv[1].vm) :
                  \E i \in DOMAIN vms.resources :
                      /\ vms.resources[i].ID = FormatUint(instance.Id)
                      /\ vms.resources[i].Name = instance.Name
                      /\ Enriched(vms.resources[i].IAM, instance.policy)
            /\ run.err = inv[1].run.err
            /\ inv[1].run.err = Nil =>
                  /\ Len(run.resources) = Len(inv[1].run.services)
                  /\ \A i \in DOMAIN inv[1].run.services :
                        /\ run.resources[i].ID = inv[1].run.services[i].Name
                        /\ Enriched(run.resources[i].IAM, inv[1].run.services[i].policy)
            /\ GetResources(inv[1]).err = Nil =>
                  \A r \in Range(vms.resources) \cup Range(run.resources) :
                      r.ID \in DOMAIN resourcesMap /\ resourcesMap[r.ID] = r

\* C22 witness: the inventory was loaded with an instance and a service whose
\* GetIamPolicy call failed, each followed by a resource that was enriched
C22_Witness ==
    /\ inv # <<>>
    /\ FormatUint(Instance2.Id) \in DOMAIN resourcesMap
    /\ resourcesMap[FormatUint(Instance2.Id)].IAM = EmptyMap
    /\ FormatUint(Instance3.Id) \in DOMAIN resourcesMap
    /\ resourcesMap[FormatUint(Instance3.Id)].IAM # EmptyMap
    /\ Service2.Name \in DOMAIN resourcesMap
    /\ resourcesMap[Service2.Name].IAM = EmptyMap
    /\ resourcesMap[Service1.Name].IAM # EmptyMap

\* the zones whose listing ended with an error
FailedZones(listing) == {z \in DOMAIN listing : listing[z].err # Nil}

\* C23: getVMs returns no error and, zone after zone, exactly the instances
\* the zone iterators returned, those of a zone whose listing failed and
\* those of every zone after it included
C23_ZoneFailureStopsOnlyThatZone ==
    inv # <<>> =>
        LET listing == inv[1].vm
            vms == getVMs(listing)
        IN  /\ vms.err = Nil
            /\ Cardinality(ListedInstances(listing)) = Len(vms.resources)
            /\ \A z \in DOMAIN listing : \A i \in DOMAIN listing[z].instances :
                  \E j \in DOMAIN vms.resources :
                      /\ vms.resources[j].ID = FormatUint(listing[z].instances[i].Id)
                      /\ vms.resources[j].Location = Zones[z]

\* C23 witness: one zone failed after two instances, the next at its first
\* page, and the instance of the zone after them is tracked
C23_Witness ==
    /\ inv # <<>>
    /\ \E z \in FailedZones(inv[1].vm) : Len(inv[1].vm[z].instances) = 2
    /\ \E z \in FailedZones(inv[1].vm) : inv[1].vm[z].instances = <<>>
    /\ \E z \in DOMAIN inv[1].vm :
          /\ \E y \in FailedZones(inv[1].vm) : y < z
          /\ inv[1].vm[z].instances # <<>>
          /\ FormatUint(inv[1].vm[z].instances[1].Id) \in DOMAIN resourcesMap

\* the resources GetResources returned
InventoryResources ==
    IF inv = <<>> THEN {} ELSE Range(GetResources(inv[1]).resources)

\* the access entries of the returned matrix, where they are kept as a slice
AccessSliceOut == Range(Matrix.Access)

\* C24: a resource of the inventory that a policy result names by the same
\* identifier keeps the name, kind and location the inventory gave it, while
\* the stream is read and in the returned matrix, and the returned access
\* entries for it carry that name and kind
C24_InventoryResourceKept ==
    \A r \in InventoryResources :
        (\E i \in DOMAIN streamRead : streamRead[i].Resource = r.ID) =>
            /\ r.ID \in DOMAIN resourcesMap
            /\ resourcesMap[r.ID] = r
            /\ ReturnedMatrix =>
                  /\ r \in ResourcesOut
                  /\ \A x \in ResourcesOut : x.ID = r.ID => x = r
                  /\ \A e \in AccessSliceOut :
                        e.ResourceID = r.ID =>
                            e.ResourceName = r.Name /\ e.ResourceType = r.Type

\* C24 witness: the stream named the service api by its inventory identifier,
\* for which the stream's own name and kind differ from the inventory's, and
\* entries for it were returned
C24_Witness ==
    /\ ReturnedMatrix
    /\ \E r \in InventoryResources :
          /\ \E i \in DOMAIN streamRead : streamRead[i].Resource = r.ID
          /\ extractResourceName(r.ID) # r.Name
          /\ extractResourceType(r.ID) # r.Type
          /\ \E e \in AccessSliceOut : e.ResourceID = r.ID /\ Len(e.Roles) = 2

\* the grants map iam holds member under role
Holds(iam, role, member) == role \in DOMAIN iam /\ member \in Range(iam[role])

\* C25: in the returned matrix the grants map of a resource holds every
\* member under every role that a policy result binds on the resource, and
\* every binding that the enrichment of the inventory obtained for it
C25_GrantsMergedFromBothSources ==
    ReturnedMatrix =>
        /\ \A i \in DOMAIN streamRead : \A pr \in Range(Pairs(streamRead[i].Bindings)) :
              \E r \in ResourcesOut :
                  r.ID = streamRead[i].Resource /\ Holds(r.IAM, pr.Role, pr.Member)
        /\ \A k \in InventoryResources : \A role \in DOMAIN k.IAM :
              \A m \in Range(k.IAM[role]) :
                  \E r \in ResourcesOut : r.ID = k.ID /\ Holds(r.IAM, role, m)

\* what GetUsers returned: the principal list before the stream was read
DirectoryUsers == SubSeq(users, 1, Cardinality(MembersOf(directory[1])))

\* the accumulated state the stream loop starts from
BeforeStream ==
    [users |-> DirectoryUsers, validUsers |-> DirectoryEmails,
     accessMap |-> EmptyMap, directFacts |-> {}]

\* the access maps the inheritance step may leave for the direct facts am
AfterInheritance(am, rm) == {WithStored(am, stored) : stored \in StoredByInheritance(am, rm)}

LocationSegment(name) == Split(name, <<Slash>>)[4]

\* C27: the location of every Cloud Run resource of the inventory is the
\* LOCATION segment of its name, so services in different locations have
\* different locations
C27_LocationFromName ==
    (inv # <<>> /\ inv[1].run.err = Nil) =>
        LET run == getCloudRunServices(inv[1].run).resources
        IN  /\ \A i \in DOMAIN run : run[i].Location = LocationSegment(run[i].Name)
            /\ \A i \in DOMAIN run, j \in DOMAIN run :
                  LocationSegment(run[i].Name) # LocationSegment(run[j].Name) =>
                      run[i].Location # run[j].Location

\* the facts accumulated by the policy loop and by the inheritance step
AccumulatedFacts == directFacts \cup inheritedFacts

\* C28: distinct (principal, resource, role) triples have distinct access
\* keys, distinct (principal, resource) pairs have distinct grouping keys,
\* and every accumulated fact is in the returned matrix under its own
\* principal and resource, whatever separators the identifiers contain
C28_KeysInjective ==
    /\ \A e1 \in AccumulatedFacts, e2 \in AccumulatedFacts :
          /\ KeyOfEntry(e1) = KeyOfEntry(e2) => TripleOf(e1) = TripleOf(e2)
          /\ GroupKey(e1.UserEmail, e1.ResourceID) = GroupKey(e2.UserEmail, e2.ResourceID)
                => (e1.UserEmail = e2.UserEmail /\ e1.ResourceID = e2.ResourceID)
    /\ ReturnedMatrix =>
          \A e \in AccumulatedFacts :
              LET parts == Split(GroupKey(e.UserEmail, e.ResourceID), KeySep)
              IN  /\ parts = <<e.UserEmail, e.ResourceID>>
                  /\ Granted(e.UserEmail, e.ResourceID, e.Roles[1])

\* the returned resources with identifier id
ResourcesWithID(id) == {r \in ResourcesOut : r.ID = id}

\* C29: every returned access entry names, by its ResourceID, exactly one
\* returned resource, returned once, and carries that resource's name and type
C29_EntriesReferenceReturnedResources ==
    ReturnedMatrix =>
        \A e \in AccessOut :
            \E r \in ResourcesOut :
                /\ ResourcesWithID(e.ResourceID) = {r}
                /\ Matrix.Resources[r] = 1
                /\ e.ResourceName = r.Name
                /\ e.ResourceType = r.Type

\* C29 witness: entries are returned for a resource of the inventory, whose
\* name is not the last segment of its identifier, and for a resource that
\* only the policy stream named
C29_Witness ==
    /\ ReturnedMatrix
    /\ \E e \in AccessOut :
          /\ e.ResourceID \in {r.ID : r \in InventoryResources}
          /\ e.ResourceName # extractResourceName(e.ResourceID)
    /\ \E e \in AccessOut :
          /\ e.ResourceID \notin {r.ID : r \in InventoryResources}
          /\ e.ResourceID # projectResourceID

\* the constructor calls made so far
ConstructorCalls == SelectSeq(calls, LAMBDA c : \E n \in Range(ClientOrder) : c.op = Constructor[n])

\* C30: when NewClient has returned after the k-th constructor failed, it
\* returned no Client and the error, the k - 1 clients created before were
\* each closed exactly once, and no constructor was called after the failing
\* one; when it has returned a Client, the four clients were created and
\* none was closed
C30_NoClientLeaked ==
    (pc = "Done" /\ newClient.returned) =>
        IF newClient.err # Nil
        THEN /\ newClient.client = <<>>
             /\ newClient.err \in ClientCauses
             /\ Len(opened) < Len(ClientOrder)
             /\ opened = SubSeq(ClientOrder, 1, Len(opened))
             /\ \A c \in Range(opened) : closes[c] = 1
             /\ \A c \in Range(ClientOrder) \ Range(opened) : closes[c] = 0
             /\ Len(ConstructorCalls) = Len(opened) + 1
             /\ ConstructorCalls[Len(ConstructorCalls)].outcome = "error"
        ELSE /\ newClient = ClientReturned(projectID)
             /\ opened = ClientOrder
             /\ closes = NoCloses
             /\ \A i \in DOMAIN calls : calls[i].outcome = "ok"

\* C30 witness: NewClient has returned the error of the fourth constructor
\* after closing the three clients created before
C30_Witness ==
    /\ pc = "Done"
    /\ newClient.returned
    /\ newClient.err # Nil
    /\ Len(opened) = 3
    /\ \A c \in Range(opened) : closes[c] = 1

====
